---- MODULE Spec2Model ----
(***************************************************************************)
(* Model of the SSO service: the gRPC boundary (package authgrpc) and the  *)
(* authentication core (package auth), with the record store, bcrypt and   *)
(* the token issuer as collaborators.                                      *)
(*                                                                         *)
(* An error value is the sequence of its wrap chain, outermost first: the  *)
(* text layers added by fmt.Errorf("%s: %w", op, err) followed by the      *)
(* sentinel at the bottom.  nil is the empty chain.                        *)
(***************************************************************************)
EXTENDS Integers, Sequences, FiniteSets, TLC

\* ---------------------------------------------------------------- bounds
\* The wall clock is capped so that the state space is finite.
MaxTime == 1

\* --------------------------------------------------------------- inputs
LongPassword ==
  "0123456789012345678901234567890123456789012345678901234567890123456789012"

Emails == {"", "nope", "a@x.io"}
Passwords == {"", "p1", "p2", LongPassword}
AppIDs == {-1, 0, 1, 2, 3}
UserIDs == {-1, 0, 1, 2}

\* ------------------------------------------------------- error values
Nil == <<>>

ErrInvalidCredentials == "auth.ErrInvalidCredentials"
ErrInvalidAppId == "auth.ErrInvalidAppId"
ErrUserExists == "auth.ErrUserExists"

StorageErrUserExists == "storage.ErrUserExists"
StorageErrUserNotFound == "storage.ErrUserNotFound"
StorageErrAppNotFound == "storage.ErrAppNotFound"
\* A failure of the record store that is none of its sentinels.
DbFailure == "sqlite: database is locked"

BcryptErrMismatch == "bcrypt.ErrMismatchedHashAndPassword"
BcryptErrTooLong == "bcrypt.ErrPasswordTooLong"
JwtErrInvalidKey == "jwt.ErrInvalidKey"

\* fmt.Errorf("%s: %w", op, err)
Errorf(op, err) == <<op>> \o err

\* errors.Is(err, target): target is somewhere in the wrap chain
ErrorsIs(err, target) == \E i \in 1..Len(err) : err[i] = target

\* ------------------------------------------------------- status codes
OK == "OK"
InvalidArgument == "InvalidArgument"
AlreadyExists == "AlreadyExists"
NotFound == "NotFound"
Internal == "Internal"

\* status.Error(code, msg)
StatusError(code, msg) == [code |-> code, msg |-> msg]
StatusOK == [code |-> OK, msg |-> <<>>]

\* ---------------------------------------------------------- validator
\* The "email" tag: one "@" with a non-empty local part and domain.
IsEmail(s) ==
  /\ Cardinality({i \in 1..Len(s) : SubSeq(s, i, i) = "@"}) = 1
  /\ \E i \in 2..(Len(s) - 1) : SubSeq(s, i, i) = "@"

\* `validate:"required,email"`: the first failing tag of the field
EmailTag(s) == IF s = "" THEN <<"required">>
               ELSE IF ~IsEmail(s) THEN <<"email">> ELSE <<>>
\* `validate:"required"`
RequiredTag(s) == IF s = "" THEN <<"required">> ELSE <<>>
\* PositiveTag without the gt=0 tag: only the zero value is refused.
PositiveTagRequiredOnly(n) == IF n = 0 THEN <<"required">> ELSE <<>>

\* `validate:"required,gt=0"`
PositiveTag(n) == IF n = 0 THEN <<"required">>
                  ELSE IF ~(n > 0) THEN <<"gt">> ELSE <<>>

FieldErr(field, tags) == IF tags = <<>> THEN <<>> ELSE <<<<field, tags[1]>>>>

\* validate.Struct(input): the field errors in field order, <<>> when valid
LoginReq(email, password, appId) ==
  FieldErr("Email", EmailTag(email)) \o FieldErr("Password", RequiredTag(password))
    \o FieldErr("AppID", PositiveTag(appId))
RegisterReq(email, password) ==
  FieldErr("Email", EmailTag(email)) \o FieldErr("Password", RequiredTag(password))
AdminCheckReq(userId) == FieldErr("UserID", PositiveTag(userId))

\* ------------------------------------------------------------- bcrypt
\* A digest records the cost and the password bytes the key schedule used
\* (bcrypt reads at most the first 72 bytes).  []byte(nil) is <<>>.
DefaultCost == <<"$2a$", "10">>
Digest(password) ==
  DefaultCost \o <<SubSeq(password, 1, IF Len(password) < 72 THEN Len(password) ELSE 72)>>

\* bcrypt.GenerateFromPassword(password, bcrypt.DefaultCost): a password of
\* more than 72 bytes is refused with ErrPasswordTooLong.
GenerateFromPassword(password) ==
  IF Len(password) > 72
    THEN [hash |-> <<>>, err |-> <<BcryptErrTooLong>>]
    ELSE [hash |-> Digest(password), err |-> Nil]

\* bcrypt.CompareHashAndPassword(hash, password)
CompareHashAndPassword(hash, password) ==
  IF hash = Digest(password) THEN Nil ELSE <<BcryptErrMismatch>>

\* ------------------------------------------------- models.User, models.App
NoUser == [id |-> 0, email |-> "", passHash |-> <<>>, isAdmin |-> FALSE]
NoApp == [id |-> 0, name |-> "", secret |-> ""]

\* The applications the store holds; this service never writes them.
Apps == { [id |-> 1, name |-> "web", secret |-> "k1"],
          [id |-> 2, name |-> "cli", secret |-> ""] }

\* An administrator that a store may hold before the service starts.
SeedAdmin == [id |-> 1, email |-> "root@x.io", passHash |-> Digest("p2"), isAdmin |-> TRUE]

\* ------------------------------------------------------- record store
\* storage: UserSaver.SaveUser. The email is unique; ids are assigned in
\* sequence and a new user is not an administrator.
SaveUser(us, email, passHash, dbFail) ==
  IF dbFail
    THEN [uid |-> 0, users |-> us, err |-> Errorf("storage.SaveUser", <<DbFailure>>)]
  ELSE IF \E u \in us : u.email = email
    THEN [uid |-> 0, users |-> us, err |-> Errorf("storage.SaveUser", <<StorageErrUserExists>>)]
  ELSE [uid |-> Cardinality(us) + 1,
        users |-> us \cup {[id |-> Cardinality(us) + 1, email |-> email,
                            passHash |-> passHash, isAdmin |-> FALSE]},
        err |-> Nil]

\* storage: UserProvider.User
User(us, email, dbFail) ==
  IF dbFail
    THEN [user |-> NoUser, err |-> Errorf("storage.User", <<DbFailure>>)]
  ELSE IF \E u \in us : u.email = email
    THEN [user |-> CHOOSE u \in us : u.email = email, err |-> Nil]
  ELSE [user |-> NoUser, err |-> Errorf("storage.User", <<StorageErrUserNotFound>>)]

\* storage: UserProvider.IsAdmin
ProviderIsAdmin(us, userId, dbFail) ==
  IF dbFail
    THEN [isAdmin |-> FALSE, err |-> Errorf("storage.IsAdmin", <<DbFailure>>)]
  ELSE IF \E u \in us : u.id = userId
    THEN [isAdmin |-> (CHOOSE u \in us : u.id = userId).isAdmin, err |-> Nil]
  ELSE [isAdmin |-> FALSE, err |-> Errorf("storage.IsAdmin", <<StorageErrUserNotFound>>)]

\* storage: AppProvider.App
App(appId, dbFail) ==
  IF dbFail
    THEN [app |-> NoApp, err |-> Errorf("storage.App", <<DbFailure>>)]
  ELSE IF \E a \in Apps : a.id = appId
    THEN [app |-> CHOOSE a \in Apps : a.id = appId, err |-> Nil]
  ELSE [app |-> NoApp, err |-> Errorf("storage.App", <<StorageErrAppNotFound>>)]

\* ------------------------------------------------------- token issuer
\* The configured lifetime of a token, in clock ticks.
tokenTTL == 2

\* A signed token is its claims and the key that signed it; "" is <<>>.
EmptyToken == <<>>
TokenUid(t) == t[1]
TokenEmail(t) == t[2]
TokenAppId(t) == t[3]
TokenExp(t) == t[4]
TokenKey(t) == t[5]

\* jwt.NewToken(user, app, duration) called at time t
NewToken(user, app, duration, t) ==
  IF app.secret = ""
    THEN [token |-> EmptyToken, err |-> <<JwtErrInvalidKey>>]
    ELSE [token |-> <<user.id, user.email, app.id, t + duration, app.secret>>,
          err |-> Nil]

\* ------------------------------------------------ authentication core
\* Auth.Login up to the password check: the user lookup and the comparison.
\* trace lists the collaborators called, cause is the collaborator's error.
AuthLoginUser(us, email, password, dbFail) ==
  LET r == User(us, email, dbFail)
      cmp == CompareHashAndPassword(r.user.passHash, password)
  IN IF r.err # Nil
       THEN [failed |-> TRUE, user |-> NoUser, trace |-> <<"User">>, cause |-> r.err,
             err |-> IF ErrorsIs(r.err, ErrInvalidCredentials)
                       THEN Errorf("auth.Login", <<ErrInvalidCredentials>>)
                       ELSE Errorf("auth.Login", r.err)]
     ELSE IF cmp # Nil
       THEN [failed |-> TRUE, user |-> r.user, trace |-> <<"User", "Compare">>,
             cause |-> cmp, err |-> Errorf("auth.Login", <<ErrInvalidCredentials>>)]
     ELSE [failed |-> FALSE, user |-> r.user, trace |-> <<"User", "Compare">>,
           cause |-> Nil, err |-> Nil]

\* AuthLoginApp issuing the token without the configured lifetime.
AuthLoginAppNoTTL(user, appId, dbFail, t) ==
  LET a == App(appId, dbFail)
      tok == NewToken(user, a.app, 0, t)
  IN IF a.err # Nil
       THEN [token |-> EmptyToken, trace |-> <<"App">>, cause |-> a.err,
             err |-> Errorf("auth.Login", a.err)]
     ELSE IF tok.err # Nil
       THEN [token |-> EmptyToken, trace |-> <<"App", "NewToken">>, cause |-> tok.err,
             err |-> Errorf("auth.Login", tok.err)]
     ELSE [token |-> tok.token, trace |-> <<"App", "NewToken">>, cause |-> Nil,
           err |-> Nil]

\* AuthLoginApp going on to the token issuer after a failed application lookup.
AuthLoginAppNoShortCircuit(user, appId, dbFail, t) ==
  LET a == App(appId, dbFail)
      tok == NewToken(user, a.app, tokenTTL, t)
  IN IF tok.err # Nil
       THEN [token |-> EmptyToken, trace |-> <<"App", "NewToken">>,
             cause |-> IF a.err # Nil THEN a.err ELSE tok.err,
             err |-> Errorf("auth.Login", IF a.err # Nil THEN a.err ELSE tok.err)]
     ELSE [token |-> tok.token, trace |-> <<"App", "NewToken">>, cause |-> Nil,
           err |-> Nil]

\* Auth.Login from the application lookup on, at time t.
AuthLoginApp(user, appId, dbFail, t) ==
  LET a == App(appId, dbFail)
      tok == NewToken(user, a.app, tokenTTL, t)
  IN IF a.err # Nil
       THEN [token |-> EmptyToken, trace |-> <<"App">>, cause |-> a.err,
             err |-> Errorf("auth.Login", a.err)]
     ELSE IF tok.err # Nil
       THEN [token |-> EmptyToken, trace |-> <<"App", "NewToken">>, cause |-> tok.err,
             err |-> Errorf("auth.Login", tok.err)]
     ELSE [token |-> tok.token, trace |-> <<"App", "NewToken">>, cause |-> Nil,
           err |-> Nil]

\* Auth.Login, whole: the second half runs only when the first did not fail.
AuthLogin(us, email, password, appId, userFail, appFail, t) ==
  LET r == AuthLoginUser(us, email, password, userFail)
      q == AuthLoginApp(r.user, appId, appFail, t)
  IN IF r.failed
       THEN [token |-> EmptyToken, trace |-> r.trace, cause |-> r.cause, err |-> r.err]
       ELSE [token |-> q.token, trace |-> r.trace \o q.trace, cause |-> q.cause,
             err |-> q.err]

\* Auth.RegisterNewUser
RegisterNewUser(us, email, password, dbFail) ==
  LET h == GenerateFromPassword(password)
      r == SaveUser(us, email, h.hash, dbFail)
  IN IF h.err # Nil
       THEN [uid |-> 0, users |-> us, trace |-> <<"Hash">>, cause |-> h.err,
             err |-> Errorf("auth.RegisterNewUser", <<ErrUserExists>>)]
     ELSE IF r.err # Nil
       THEN [uid |-> 0, users |-> r.users, trace |-> <<"Hash", "SaveUser">>,
             cause |-> r.err,
             err |-> IF ErrorsIs(r.err, StorageErrUserExists)
                       THEN Errorf("auth.RegisterNewUser", r.err)
                       ELSE Errorf("auth.RegisterNewUser", r.err)]
     ELSE [uid |-> r.uid, users |-> r.users, trace |-> <<"Hash", "SaveUser">>,
           cause |-> Nil, err |-> Nil]

\* IsAdmin classifying the store's user-not-found as an invalid application.
IsAdminUserNotFoundAsAppId(us, userId, dbFail) ==
  LET r == ProviderIsAdmin(us, userId, dbFail)
  IN IF r.err # Nil
       THEN [isAdmin |-> FALSE, trace |-> <<"IsAdmin">>, cause |-> r.err,
             err |-> IF ErrorsIs(r.err, StorageErrUserNotFound)
                       THEN Errorf("Auth.IsAmin", <<ErrInvalidAppId>>)
                       ELSE Errorf("Auth.IsAmin", r.err)]
     ELSE [isAdmin |-> r.isAdmin, trace |-> <<"IsAdmin">>, cause |-> Nil, err |-> Nil]

\* Auth.IsAdmin
IsAdmin(us, userId, dbFail) ==
  LET r == ProviderIsAdmin(us, userId, dbFail)
  IN IF r.err # Nil
       THEN [isAdmin |-> FALSE, trace |-> <<"IsAdmin">>, cause |-> r.err,
             err |-> IF ErrorsIs(r.err, StorageErrAppNotFound)
                       THEN Errorf("Auth.IsAmin", <<ErrInvalidAppId>>)
                       ELSE Errorf("Auth.IsAmin", r.err)]
     ELSE [isAdmin |-> r.isAdmin, trace |-> <<"IsAdmin">>, cause |-> Nil, err |-> Nil]

\* ------------------------------------------------------ gRPC boundary
\* The answer to a request whose input struct fails validation.
Rejected(fieldErrs) == StatusError(InvalidArgument, fieldErrs)

\* LoginStatus answering "internal" to every error but invalid credentials.
LoginStatusOtherInternal(err) ==
  IF err # Nil
    THEN IF ErrorsIs(err, ErrInvalidCredentials)
           THEN StatusError(InvalidArgument, <<"internal error">>)
           ELSE StatusError(Internal, <<"internal error">>)
    ELSE StatusOK

\* serverAPI.Login: the status for the core's error
LoginStatus(err) ==
  IF err # Nil
    THEN IF ErrorsIs(err, ErrInvalidCredentials)
           THEN StatusError(InvalidArgument, <<"internal error">>)
           ELSE StatusError(InvalidArgument, <<"internal error">>)
    ELSE StatusOK

\* serverAPI.Register: the status for the core's error
RegisterStatus(err) ==
  IF err # Nil
    THEN IF ErrorsIs(err, ErrUserExists)
           THEN StatusError(AlreadyExists, <<"user already exists">>)
           ELSE StatusError(Internal, <<"internal error">>)
    ELSE StatusOK

\* serverAPI.isAdmin: the status for the core's error
IsAdminStatus(err) ==
  IF err # Nil
    THEN IF ErrorsIs(err, StorageErrUserNotFound)
           THEN StatusError(NotFound, <<"user not found">>)
           ELSE StatusError(Internal, <<"internal error">>)
    ELSE StatusOK

\* -------------------------------------------------------------- state
VARIABLES
  users,       \* the user records of the store
  now,         \* the wall clock
  login,       \* the Login request in flight, between its store calls
  last,        \* the request that completed last, and its answer
  seen,        \* the latest answers to a Login with an unknown email and to
               \* one with a wrong password
  registered   \* the <<email, password>> pairs registered so far

vars == <<users, now, login, last, seen, registered>>

Idle == [pc |-> "idle", email |-> "", password |-> "", appId |-> 0,
         user |-> NoUser, trace |-> <<>>, wasRegistered |-> FALSE]

NoObs == [rpc |-> "none", email |-> "", password |-> "", num |-> 0,
          coreCalls |-> 0, trace |-> <<>>, cause |-> Nil, err |-> Nil,
          resp |-> StatusOK, token |-> EmptyToken, uid |-> 0, isAdmin |-> FALSE,
          wasRegistered |-> FALSE, iat |-> 0, storeChanged |-> FALSE]

NoSlot == [appId |-> 0, resp |-> StatusOK]

Init ==
  /\ users \in {{}, {SeedAdmin}}
  /\ now = 0
  /\ login = Idle
  /\ last = NoObs
  /\ seen = [unregistered |-> NoSlot, wrongPassword |-> NoSlot]
  /\ registered = {}

\* The completed Login call as the caller and the collaborators saw it.
LoginObs(l, coreCalls, trace, cause, err, resp, token, t) ==
  [NoObs EXCEPT !.rpc = "Login", !.email = l.email, !.password = l.password,
                !.num = l.appId, !.coreCalls = coreCalls, !.trace = trace,
                !.cause = cause, !.err = err, !.resp = resp, !.token = token,
                !.wasRegistered = l.wasRegistered, !.iat = t]

Seen(l, cause, resp) ==
  IF ErrorsIs(cause, StorageErrUserNotFound)
    THEN [seen EXCEPT !.unregistered = [appId |-> l.appId, resp |-> resp]]
  ELSE IF ErrorsIs(cause, BcryptErrMismatch)
    THEN [seen EXCEPT !.wrongPassword = [appId |-> l.appId, resp |-> resp]]
  ELSE seen

\* serverAPI.Login, to the point where Auth.Login calls the store
LoginBegin(email, password, appId) ==
  LET v == LoginReq(email, password, appId)
      l == [Idle EXCEPT !.email = email, !.password = password, !.appId = appId,
                        !.wasRegistered = (<<email, password>> \in registered)]
  IN /\ login.pc = "idle"
     /\ IF v # <<>>
          THEN /\ last' = LoginObs(l, 0, <<>>, Nil, Nil, Rejected(v), EmptyToken, 0)
               /\ login' = login
          ELSE /\ login' = [l EXCEPT !.pc = "user"]
               /\ last' = last
     /\ UNCHANGED <<users, now, seen, registered>>

\* Auth.Login: the user lookup and the password check
LoginUserStep(dbFail) ==
  LET r == AuthLoginUser(users, login.email, login.password, dbFail)
  IN /\ login.pc = "user"
     /\ IF r.failed
          THEN /\ last' = LoginObs(login, 1, r.trace, r.cause, r.err,
                                   LoginStatus(r.err), EmptyToken, 0)
               /\ login' = Idle
          ELSE /\ login' = [login EXCEPT !.pc = "app", !.user = r.user, !.trace = r.trace]
               /\ last' = last
     /\ UNCHANGED <<users, now, seen, registered>>

\* Auth.Login: the application lookup and the token, then the answer
LoginAppStep(dbFail) ==
  LET r == AuthLoginApp(login.user, login.appId, dbFail, now)
  IN /\ login.pc = "app"
     /\ last' = LoginObs(login, 1, login.trace \o r.trace, r.cause, r.err,
                         LoginStatus(r.err), r.token, now)
     /\ login' = Idle
     /\ UNCHANGED <<users, now, seen, registered>>

\* serverAPI.Register
Register(email, password, dbFail) ==
  LET v == RegisterReq(email, password)
      r == RegisterNewUser(users, email, password, dbFail)
      o == [NoObs EXCEPT !.rpc = "Register", !.email = email, !.password = password]
  IN /\ v # <<>> => ~dbFail    \* no store call to fail
     /\ IF v # <<>>
          THEN /\ last' = [o EXCEPT !.resp = Rejected(v)]
               /\ UNCHANGED <<users, registered>>
          ELSE /\ last' = [o EXCEPT !.coreCalls = 1, !.trace = r.trace,
                                    !.cause = r.cause, !.err = r.err,
                                    !.resp = RegisterStatus(r.err), !.uid = r.uid,
                                    !.storeChanged = (r.users # users)]
               /\ users' = r.users
               /\ registered' = IF r.err = Nil
                                  THEN registered \cup {<<email, password>>}
                                  ELSE registered
     /\ UNCHANGED <<now, login, seen>>

\* serverAPI.isAdmin
AdminCheck(userId, dbFail) ==
  LET v == AdminCheckReq(userId)
      r == IsAdmin(users, userId, dbFail)
      o == [NoObs EXCEPT !.rpc = "IsAdmin", !.num = userId]
  IN /\ v # <<>> => ~dbFail    \* no store call to fail
     /\ IF v # <<>>
          THEN last' = [o EXCEPT !.resp = Rejected(v)]
          ELSE last' = [o EXCEPT !.coreCalls = 1, !.trace = r.trace,
                                 !.cause = r.cause, !.err = r.err,
                                 !.resp = IsAdminStatus(r.err), !.isAdmin = r.isAdmin]
     /\ UNCHANGED <<users, now, login, seen, registered>>

\* time passes
Tick ==
  /\ now < MaxTime
  /\ now' = now + 1
  /\ UNCHANGED <<users, login, last, seen, registered>>

\* serverAPI.Login, served without another request in between
Login(email, password, appId, userFail, appFail) ==
  LET v == LoginReq(email, password, appId)
      l == [Idle EXCEPT !.email = email, !.password = password, !.appId = appId,
                        !.wasRegistered = (<<email, password>> \in registered)]
      r == AuthLogin(users, email, password, appId, userFail, appFail, now)
  IN /\ login.pc = "idle"
     /\ v # <<>> => ~userFail /\ ~appFail    \* no store call to fail
     /\ IF v # <<>>
          THEN /\ last' = LoginObs(l, 0, <<>>, Nil, Nil, Rejected(v), EmptyToken, 0)
               /\ seen' = seen
          ELSE /\ last' = LoginObs(l, 1, r.trace, r.cause, r.err, LoginStatus(r.err),
                                   r.token, now)
               /\ seen' = Seen(l, r.cause, LoginStatus(r.err))
     /\ UNCHANGED <<users, now, login, registered>>

\* Every handler runs to its answer before the next request is served.
Next ==
  \/ \E e \in Emails, p \in Passwords, a \in AppIDs, f \in BOOLEAN, g \in BOOLEAN :
       Login(e, p, a, f, g)
  \/ \E e \in Emails, p \in Passwords, f \in BOOLEAN : Register(e, p, f)
  \/ \E u \in UserIDs, f \in BOOLEAN : AdminCheck(u, f)
  \/ Tick

Spec == Init /\ [][Next]_vars

\* A Login request is served in steps, and registrations and the clock run
\* between its store calls.
NextSteps ==
  \/ \E e \in Emails, p \in Passwords, a \in AppIDs : LoginBegin(e, p, a)
  \/ \E f \in BOOLEAN : LoginUserStep(f)
  \/ \E f \in BOOLEAN : LoginAppStep(f)
  \/ \E e \in Emails, p \in Passwords, f \in BOOLEAN : Register(e, p, f)
  \/ Tick

SpecSteps == Init /\ [][NextSteps]_vars

TypeOK ==
  /\ now \in 0..MaxTime
  /\ login.pc \in {"idle", "user", "app"}
  /\ \A u \in users : \A w \in users : u.email = w.email => u = w

\* ------------------------------------------------------------ claims
MalformedEmails == {"nope"}
KnownApp(appId) == \E a \in Apps : a.id = appId
CoreReturned(rpc) == last.rpc = rpc /\ last.coreCalls = 1

\* C1: a valid Register for an email the store already holds (SaveUser reports
\* its uniqueness violation) is answered "already exists", not "internal", and
\* leaves the stored user records as they were.
C1_DuplicateAnsweredAlreadyExists ==
  (CoreReturned("Register") /\ ErrorsIs(last.cause, StorageErrUserExists))
    => (last.resp.code = AlreadyExists /\ ~last.storeChanged)

\* C2: when UserProvider.User reports not-found, Auth.Login returns an error
\* that matches ErrInvalidCredentials and does not match the provider's
\* not-found sentinel.
C2_NotFoundIsInvalidCredentials ==
  (CoreReturned("Login") /\ ErrorsIs(last.cause, StorageErrUserNotFound))
    => (ErrorsIs(last.err, ErrInvalidCredentials)
        /\ ~ErrorsIs(last.err, StorageErrUserNotFound))

\* C3: a valid Login for an unregistered email and a valid Login with a wrong
\* password for a registered one, with the same appID, get the same answer
\* (status class and message).
C3_SameAnswer ==
  (/\ seen.unregistered # NoSlot
   /\ seen.wrongPassword # NoSlot
   /\ seen.unregistered.appId = seen.wrongPassword.appId)
    => seen.unregistered.resp = seen.wrongPassword.resp

C3_Witness ==
  /\ seen.unregistered # NoSlot
  /\ seen.wrongPassword # NoSlot
  /\ seen.unregistered.appId = seen.wrongPassword.appId
  /\ seen.unregistered.resp.code # OK

\* C4: in each handler a Core error that is not of the handler's specially
\* mapped kind (InvalidCredentials for Login, UserAlreadyExists for Register,
\* UserNotFound for the admin check) is answered "internal"; a Login that fails
\* on the application lookup or on the token is "internal", not "invalid
\* argument".
C4_UnmappedErrorIsInternal ==
  /\ (CoreReturned("Login") /\ last.err # Nil
        /\ ~ErrorsIs(last.err, ErrInvalidCredentials))
       => last.resp.code = Internal
  /\ (CoreReturned("Register") /\ last.err # Nil /\ ~ErrorsIs(last.err, ErrUserExists))
       => last.resp.code = Internal
  /\ (CoreReturned("IsAdmin") /\ last.err # Nil
        /\ ~ErrorsIs(last.err, StorageErrUserNotFound))
       => last.resp.code = Internal

\* C5: a request that violates a field constraint (Login: empty or malformed
\* email, empty password, appID <= 0; Register: empty or malformed email, empty
\* password; admin check: userID <= 0) is answered "invalid argument" and the
\* Core operation is not invoked for it.
ViolatesConstraint ==
  \/ /\ last.rpc = "Login"
     /\ (last.email = "" \/ last.email \in MalformedEmails \/ last.password = ""
         \/ last.num <= 0)
  \/ /\ last.rpc = "Register"
     /\ (last.email = "" \/ last.email \in MalformedEmails \/ last.password = "")
  \/ /\ last.rpc = "IsAdmin"
     /\ last.num <= 0

C5_RejectedBeforeCore ==
  ViolatesConstraint => (last.resp.code = InvalidArgument /\ last.coreCalls = 0)

C5_Witness ==
  /\ last.rpc = "Login"
  /\ last.email = "a@x.io" /\ last.password = "p1" /\ last.num < 0
  /\ last.resp.code = InvalidArgument
  /\ last.coreCalls = 0

\* C6: for a user registered before with (email, password) and an appID whose
\* application the AppProvider returns, Login(email, password, appID) succeeds
\* with the token issued for the user record under that email, the application
\* under that appID and the configured TTL: its claims carry that user, that
\* email, that appID and exp = issue time + tokenTTL, unless the issuer fails.
C6_Applies ==
  /\ CoreReturned("Login")
  /\ last.wasRegistered
  /\ KnownApp(last.num)
  /\ ~ErrorsIs(last.cause, DbFailure)
  /\ ~ErrorsIs(last.cause, JwtErrInvalidKey)

C6_RegisteredLoginGetsToken ==
  C6_Applies =>
    /\ last.resp = StatusOK
    /\ last.err = Nil
    /\ \E u \in users : \E a \in Apps :
         /\ u.email = last.email
         /\ a.id = last.num
         /\ last.token = <<u.id, last.email, last.num, last.iat + tokenTTL, a.secret>>
    /\ last.iat <= now

C6_Witness ==
  /\ C6_Applies
  /\ last.token # EmptyToken
  /\ TokenEmail(last.token) = "a@x.io"
  /\ last.iat > 0

\* C7: when hashing the password fails in RegisterNewUser, the error returned
\* does not match ErrUserExists, the boundary does not answer "already exists",
\* and SaveUser is not called.
C7_HashFailureIsNotUserExists ==
  (CoreReturned("Register") /\ ErrorsIs(last.cause, BcryptErrTooLong))
    => /\ ~ErrorsIs(last.err, ErrUserExists)
       /\ last.resp.code # AlreadyExists
       /\ last.trace = <<"Hash">>

TaxonomyMatches(err) ==
  {k \in {ErrInvalidCredentials, ErrInvalidAppId, ErrUserExists, StorageErrUserNotFound} :
     ErrorsIs(err, k)}

C9_ClassifiedAndOpaque ==
  (last.coreCalls = 1 /\ last.err # Nil) =>
    /\ Cardinality(TaxonomyMatches(last.err)) <= 1
    /\ ErrorsIs(last.cause, DbFailure) => ~ErrorsIs(last.err, DbFailure)

\* C10: one Auth.Login call invokes User, the password check, App and the
\* token issuer in that order, each at most once; the step that fails is the
\* last one invoked and the token is then empty, so the issuer is reached only
\* after the three steps before it succeeded.
LoginOrder == <<"User", "Compare", "App", "NewToken">>
IsPrefix(t, full) == Len(t) <= Len(full) /\ \A i \in 1..Len(t) : t[i] = full[i]

FailedStep(cause) ==
  IF ErrorsIs(cause, "storage.User") THEN 1
  ELSE IF ErrorsIs(cause, BcryptErrMismatch) THEN 2
  ELSE IF ErrorsIs(cause, "storage.App") THEN 3
  ELSE IF ErrorsIs(cause, JwtErrInvalidKey) THEN 4
  ELSE 0

C10_OrderedShortCircuit ==
  /\ (login.pc = "user") => login.trace = <<>>
  /\ (login.pc = "app") => login.trace = <<"User", "Compare">>
  /\ CoreReturned("Login") =>
       /\ IsPrefix(last.trace, LoginOrder)
       /\ last.cause # Nil =>
            /\ last.err # Nil
            /\ Len(last.trace) = FailedStep(last.cause)
            /\ last.token = EmptyToken
       /\ last.cause = Nil => (last.err = Nil /\ last.trace = LoginOrder)

C10_Witness ==
  /\ CoreReturned("Login")
  /\ FailedStep(last.cause) = 3
  /\ last.trace = <<"User", "Compare", "App">>
  /\ last.token = EmptyToken

====
